---- MODULE Spec2Model ----
(***************************************************************************)
(* Lead cleaner flotation simulator (Pb_flot_app.py).                      *)
(*                                                                         *)
(* The performance model is a pure function over real numbers: five        *)
(* piecewise-linear lookup tables, interpolate_lookup, and the weighted    *)
(* blend of calculate_performance.  Numbers are modelled as exact          *)
(* rationals <<n, d>> in lowest terms with d > 0, so every sum, product,   *)
(* quotient and comparison of the source is computed, not abstracted.      *)
(* The Streamlit script body is modelled as one action per rerun.          *)
(***************************************************************************)
EXTENDS Integers, Sequences, FiniteSets, TLC

VARIABLES lookup_table, value, result,   \* one call of interpolate_lookup
          params, perf,                  \* the operating point and its results
          pb_history, pb_last_params     \* st.session_state

vars == <<lookup_table, value, result, params, perf,
          pb_history, pb_last_params>>

----------------------------------------------------------------------------
(* Exact rational arithmetic: the real-number operators the source uses.   *)

Abs(n) == IF n < 0 THEN -n ELSE n

RECURSIVE GCD(_, _)
GCD(a, b) == IF b = 0 THEN a ELSE GCD(b, a % b)

\* the rational n/d (d # 0) in lowest terms with a positive denominator
Q(n, d) ==
    LET g == GCD(Abs(n), Abs(d))
        s == IF d < 0 THEN -1 ELSE 1
    IN  <<(s * n) \div g, (s * d) \div g>>

R(n) == <<n, 1>>

RAdd(a, b) ==
    LET g == GCD(a[2], b[2])
    IN  Q(a[1] * (b[2] \div g) + b[1] * (a[2] \div g), (a[2] \div g) * b[2])

RNeg(a) == <<-a[1], a[2]>>

RSub(a, b) == RAdd(a, RNeg(b))

RMul(a, b) ==
    LET g1 == GCD(Abs(a[1]), b[2])
        g2 == GCD(Abs(b[1]), a[2])
    IN  Q((a[1] \div g1) * (b[1] \div g2), (a[2] \div g2) * (b[2] \div g1))

\* a / b, b # 0
RDiv(a, b) == RMul(a, Q(b[2], b[1]))

\* a/b <= c/d by comparing integer parts, then the reciprocals of the
\* fractional parts (no cross product, so no overflow)
RECURSIVE FracLe(_, _, _, _)
FracLe(a, b, c, d) ==
    LET q1 == a \div b
        q2 == c \div d
        r1 == a % b
        r2 == c % d
    IN  IF q1 # q2 THEN q1 < q2
        ELSE IF r1 = 0 THEN TRUE
        ELSE IF r2 = 0 THEN FALSE
        ELSE FracLe(d, r2, b, r1)

RLe(a, b) == FracLe(a[1], a[2], b[1], b[2])

RLt(a, b) == ~RLe(b, a)

\* Python's min(a, b) and max(a, b): the first argument wins a tie
RMin(a, b) == IF RLt(b, a) THEN b ELSE a

RMax(a, b) == IF RLt(a, b) THEN b ELSE a

----------------------------------------------------------------------------
(* The five lookup tables, lines 10-56.                                    *)

COLLECTOR_LOOKUP ==
    (R(0)   :> [recovery |-> R(10), grade |-> R(45), zn_activation |-> Q(1, 10)]) @@
    (R(25)  :> [recovery |-> R(30), grade |-> R(48), zn_activation |-> Q(3, 10)]) @@
    (R(50)  :> [recovery |-> R(46), grade |-> R(55), zn_activation |-> Q(6, 10)]) @@
    (R(75)  :> [recovery |-> R(58), grade |-> R(45), zn_activation |-> Q(12, 10)]) @@
    (R(100) :> [recovery |-> R(70), grade |-> R(40), zn_activation |-> R(2)]) @@
    (R(150) :> [recovery |-> R(75), grade |-> R(30), zn_activation |-> Q(35, 10)])

AIR_RATE_LOOKUP ==
    (R(0)   :> [recovery |-> R(10), grade |-> R(35), zn_flotation |-> Q(5, 100)]) @@
    (R(25)  :> [recovery |-> R(35), grade |-> R(50), zn_flotation |-> Q(15, 100)]) @@
    (R(50)  :> [recovery |-> R(45), grade |-> R(52), zn_flotation |-> Q(25, 100)]) @@
    (R(75)  :> [recovery |-> R(65), grade |-> R(48), zn_flotation |-> Q(4, 10)]) @@
    (R(100) :> [recovery |-> R(75), grade |-> R(30), zn_flotation |-> Q(6, 10)])

SMBS_LOOKUP ==
    (R(0)   :> [recovery |-> R(100), grade |-> R(45), iron_rejection |-> R(0),  zn_depression |-> R(0)]) @@
    (R(50)  :> [recovery |-> R(99),  grade |-> R(52), iron_rejection |-> R(15), zn_depression |-> R(10)]) @@
    (R(100) :> [recovery |-> R(98),  grade |-> R(58), iron_rejection |-> R(35), zn_depression |-> R(25)]) @@
    (R(150) :> [recovery |-> R(92),  grade |-> R(62), iron_rejection |-> R(50), zn_depression |-> R(40)]) @@
    (R(200) :> [recovery |-> R(88),  grade |-> R(65), iron_rejection |-> R(65), zn_depression |-> R(55)]) @@
    (R(300) :> [recovery |-> R(85),  grade |-> R(68), iron_rejection |-> R(80), zn_depression |-> R(70)])

PH_LOOKUP ==
    (Q(70, 10)  :> [recovery_multiplier |-> R(1), grade_bonus |-> R(-2), zn_selectivity |-> Q(12, 10)]) @@
    (Q(75, 10)  :> [recovery_multiplier |-> R(1), grade_bonus |-> R(0),  zn_selectivity |-> R(1)]) @@
    (Q(80, 10)  :> [recovery_multiplier |-> R(1), grade_bonus |-> R(2),  zn_selectivity |-> Q(9, 10)]) @@
    (Q(85, 10)  :> [recovery_multiplier |-> R(1), grade_bonus |-> Q(35, 10), zn_selectivity |-> Q(8, 10)]) @@
    (Q(90, 10)  :> [recovery_multiplier |-> R(1), grade_bonus |-> R(4),  zn_selectivity |-> Q(7, 10)]) @@
    (Q(95, 10)  :> [recovery_multiplier |-> Q(85, 100), grade_bonus |-> R(3), zn_selectivity |-> Q(6, 10)]) @@
    (Q(100, 10) :> [recovery_multiplier |-> Q(70, 100), grade_bonus |-> R(1), zn_selectivity |-> Q(5, 10)])

LUPROSET_LOOKUP ==
    (R(0)   :> [carbon_rejection |-> R(0),  recovery_effect |-> R(0)]) @@
    (R(50)  :> [carbon_rejection |-> R(20), recovery_effect |-> Q(-5, 10)]) @@
    (R(100) :> [carbon_rejection |-> R(35), recovery_effect |-> R(-1)]) @@
    (R(200) :> [carbon_rejection |-> R(55), recovery_effect |-> R(-2)]) @@
    (R(300) :> [carbon_rejection |-> R(70), recovery_effect |-> Q(-35, 10)]) @@
    (R(500) :> [carbon_rejection |-> R(85), recovery_effect |-> R(-5)])

----------------------------------------------------------------------------
(* interpolate_lookup, lines 58-82.  A raised exception is the record      *)
(* [error |-> name].                                                       *)

Raise(name) == [error |-> name]

Raised(r) == "error" \in DOMAIN r

\* the least element of a non-empty set of rationals
MinKey(S) == CHOOSE k \in S : \A j \in S : RLe(k, j)

\* sorted(lookup_table.keys()), line 60
RECURSIVE sorted(_)
sorted(S) == IF S = {} THEN <<>>
             ELSE LET k == MinKey(S) IN <<k>> \o sorted(S \ {k})

\* Bracketing with strict comparisons: keys[i] < value < keys[i + 1]
Bracketing_Strict(keys, v) ==
    {i \in 1..(Len(keys) - 1) : RLt(keys[i], v) /\ RLt(v, keys[i + 1])}

\* lines 68-71: the indices i of range(len(keys) - 1) whose test succeeds;
\* the loop breaks at the least of them
Bracketing(keys, v) ==
    {i \in 1..(Len(keys) - 1) : RLe(keys[i], v) /\ RLe(v, keys[i + 1])}

\* Lerp with the weight (value - lower_key) / upper_key
Lerp_WeightByUpper(v, lookup, lower_key, upper_key) ==
    LET weight == RDiv(RSub(v, lower_key), upper_key)
    IN  [param \in DOMAIN lookup[lower_key] |->
           LET lower_val == lookup[lower_key][param]
               upper_val == lookup[upper_key][param]
           IN  RAdd(lower_val, RMul(weight, RSub(upper_val, lower_val)))]

\* Lerp blending towards upper_val instead of (upper_val - lower_val)
Lerp_NoDifference(v, lookup, lower_key, upper_key) ==
    LET weight == RDiv(RSub(v, lower_key), RSub(upper_key, lower_key))
    IN  [param \in DOMAIN lookup[lower_key] |->
           LET lower_val == lookup[lower_key][param]
               upper_val == lookup[upper_key][param]
           IN  RAdd(lower_val, RMul(weight, upper_val))]

\* lines 74-82, once lower_key and upper_key are bound
Lerp(v, lookup, lower_key, upper_key) ==
    IF upper_key = lower_key THEN Raise("ZeroDivisionError")
    ELSE IF \E param \in DOMAIN lookup[lower_key] :
                param \notin DOMAIN lookup[upper_key]
    THEN Raise("KeyError")
    ELSE LET weight == RDiv(RSub(v, lower_key), RSub(upper_key, lower_key))
         IN  [param \in DOMAIN lookup[lower_key] |->
                LET lower_val == lookup[lower_key][param]
                    upper_val == lookup[upper_key][param]
                IN  RAdd(lower_val, RMul(weight, RSub(upper_val, lower_val)))]

\* lines 68-82 for the indices found by the loop: lower_key and upper_key
\* stay unbound when no test succeeded, else the first success binds them
FirstBracket(v, lookup, keys, found) ==
    IF found = {} THEN Raise("UnboundLocalError")
    ELSE Lerp(v, lookup,
              keys[CHOOSE j \in found : \A m \in found : j <= m],
              keys[(CHOOSE j \in found : \A m \in found : j <= m) + 1])

\* lines 62-82 without the test of line 64
WithKeys_NoUpperEdge(v, lookup, keys) ==
    IF keys = <<>> THEN Raise("IndexError")
    ELSE IF RLe(v, keys[1]) THEN lookup[keys[1]]
    ELSE FirstBracket(v, lookup, keys, Bracketing(keys, v))

\* lines 62-82 on the sorted keys
WithKeys(v, lookup, keys) ==
    IF keys = <<>> THEN Raise("IndexError")
    ELSE IF RLe(v, keys[1]) THEN lookup[keys[1]]
    ELSE IF RLe(keys[Len(keys)], v) THEN lookup[keys[Len(keys)]]
    ELSE FirstBracket(v, lookup, keys, Bracketing(keys, v))

interpolate_lookup(v, lookup) == WithKeys(v, lookup, sorted(DOMAIN lookup))

----------------------------------------------------------------------------
(* calculate_performance, lines 84-141.  The five returned values are the  *)
(* fields of a record named after the returned variables.                  *)

\* Constraints without the cap 2 * zn_feed_grade on zinc_grade
Constraints_NoZincCap(recovery, grade, iron_grade, carbon_grade, zinc_grade, fe_feed_grade, carbon_feed_grade, zn_feed_grade) ==
    [recovery     |-> RMax(R(0), RMin(R(100), recovery)),
     grade        |-> RMax(R(35), RMin(R(75), grade)),
     iron_grade   |-> RMax(Q(1, 10), RMin(fe_feed_grade, iron_grade)),
     carbon_grade |-> RMax(Q(1, 10),
                           RMin(RMul(carbon_feed_grade, R(4)), carbon_grade)),
     zinc_grade   |-> RMax(Q(1, 100), zinc_grade)]

\* Constraints with the cap applied last: min(cap, max(floor, x))
Constraints_CapLast(recovery, grade, iron_grade, carbon_grade, zinc_grade, fe_feed_grade, carbon_feed_grade, zn_feed_grade) ==
    [recovery     |-> RMin(R(100), RMax(R(0), recovery)),
     grade        |-> RMin(R(75), RMax(R(35), grade)),
     iron_grade   |-> RMin(fe_feed_grade, RMax(Q(1, 10), iron_grade)),
     carbon_grade |-> RMin(RMul(carbon_feed_grade, R(4)),
                           RMax(Q(1, 10), carbon_grade)),
     zinc_grade   |-> RMin(RMul(zn_feed_grade, R(2)),
                           RMax(Q(1, 100), zinc_grade))]

\* lines 134-139: the constraints applied to the five raw values
Constraints(recovery, grade, iron_grade, carbon_grade, zinc_grade, fe_feed_grade, carbon_feed_grade, zn_feed_grade) ==
    [recovery     |-> RMax(R(0), RMin(R(100), recovery)),
     grade        |-> RMax(R(35), RMin(R(75), grade)),
     iron_grade   |-> RMax(Q(1, 10), RMin(fe_feed_grade, iron_grade)),
     carbon_grade |-> RMax(Q(1, 10),
                           RMin(RMul(carbon_feed_grade, R(4)), carbon_grade)),
     zinc_grade   |-> RMax(Q(1, 100),
                           RMin(RMul(zn_feed_grade, R(2)), zinc_grade))]

\* Recovery without the Luproset effect of line 104
Recovery_NoLuproset(collector_metrics, air_metrics, smbs_metrics, ph_metrics, luproset_metrics) ==
    LET base_recovery ==
            RAdd(RAdd(RAdd(RMul(collector_metrics.recovery, Q(55, 100)),
                           RMul(air_metrics.recovery, Q(25, 100))),
                      RMul(smbs_metrics.recovery, Q(20, 100))),
                 RMul(R(65), Q(10, 100)))
    IN  RMul(base_recovery, ph_metrics.recovery_multiplier)

\* lines 94-104
Recovery(collector_metrics, air_metrics, smbs_metrics, ph_metrics, luproset_metrics) ==
    LET base_recovery ==
            RAdd(RAdd(RAdd(RMul(collector_metrics.recovery, Q(55, 100)),
                           RMul(air_metrics.recovery, Q(25, 100))),
                      RMul(smbs_metrics.recovery, Q(20, 100))),
                 RMul(R(65), Q(10, 100)))
        recovery == RMul(base_recovery, ph_metrics.recovery_multiplier)
    IN  RAdd(recovery, luproset_metrics.recovery_effect)

\* Grade without the baseline term 52.0 * 0.10
Grade_NoBaseline(collector_metrics, air_metrics, smbs_metrics, ph_metrics) ==
    LET base_grade ==
            RAdd(RAdd(RMul(collector_metrics.grade, Q(50, 100)),
                      RMul(air_metrics.grade, Q(25, 100))),
                 RMul(smbs_metrics.grade, Q(25, 100)))
    IN  RAdd(base_grade, ph_metrics.grade_bonus)

\* lines 106-112
Grade(collector_metrics, air_metrics, smbs_metrics, ph_metrics) ==
    LET base_grade ==
            RAdd(RAdd(RAdd(RMul(collector_metrics.grade, Q(50, 100)),
                           RMul(air_metrics.grade, Q(25, 100))),
                      RMul(smbs_metrics.grade, Q(25, 100))),
                 RMul(R(52), Q(10, 100)))
    IN  RAdd(base_grade, ph_metrics.grade_bonus)

\* lines 114-116
IronGrade(smbs_metrics, fe_feed_grade) ==
    LET iron_rejection_factor == RDiv(smbs_metrics.iron_rejection, R(100))
    IN  RMul(fe_feed_grade, RSub(R(1), iron_rejection_factor))

\* lines 118-120
CarbonGrade(luproset_metrics, carbon_feed_grade) ==
    LET carbon_rejection_factor == RDiv(luproset_metrics.carbon_rejection, R(100))
    IN  RMul(RMul(carbon_feed_grade, R(4)), RSub(R(1), carbon_rejection_factor))

\* ZincGrade with the depression added instead of subtracted
ZincGrade_DepressionAdds(collector_metrics, air_metrics, smbs_metrics, ph_metrics, zn_feed_grade) ==
    LET base_zn_flotation ==
            RMul(RAdd(collector_metrics.zn_activation, air_metrics.zn_flotation),
                 zn_feed_grade)
        zn_with_ph == RMul(base_zn_flotation, ph_metrics.zn_selectivity)
        zn_depression_factor == RDiv(smbs_metrics.zn_depression, R(100))
    IN  RMul(zn_with_ph, RAdd(R(1), zn_depression_factor))

\* lines 122-132
ZincGrade(collector_metrics, air_metrics, smbs_metrics, ph_metrics, zn_feed_grade) ==
    LET base_zn_flotation ==
            RMul(RAdd(collector_metrics.zn_activation, air_metrics.zn_flotation),
                 zn_feed_grade)
        zn_with_ph == RMul(base_zn_flotation, ph_metrics.zn_selectivity)
        zn_depression_factor == RDiv(smbs_metrics.zn_depression, R(100))
    IN  RMul(zn_with_ph, RSub(R(1), zn_depression_factor))

\* the attributes each formula subscripts; a missing one raises KeyError
Subscripted ==
    [collector |-> {"recovery", "grade", "zn_activation"},
     air       |-> {"recovery", "grade", "zn_flotation"},
     smbs      |-> {"recovery", "grade", "iron_rejection", "zn_depression"},
     ph        |-> {"recovery_multiplier", "grade_bonus", "zn_selectivity"},
     luproset  |-> {"carbon_rejection", "recovery_effect"}]

\* lines 94-141 on the five interpolated rows; an exception raised by a
\* call of lines 88-92 propagates, the first call first
Combine(collector_metrics, air_metrics, smbs_metrics, ph_metrics, luproset_metrics, fe_feed_grade, carbon_feed_grade, zn_feed_grade) ==
    IF Raised(collector_metrics) THEN collector_metrics
    ELSE IF Raised(air_metrics) THEN air_metrics
    ELSE IF Raised(smbs_metrics) THEN smbs_metrics
    ELSE IF Raised(ph_metrics) THEN ph_metrics
    ELSE IF Raised(luproset_metrics) THEN luproset_metrics
    ELSE IF ~(/\ Subscripted.collector \subseteq DOMAIN collector_metrics
              /\ Subscripted.air \subseteq DOMAIN air_metrics
              /\ Subscripted.smbs \subseteq DOMAIN smbs_metrics
              /\ Subscripted.ph \subseteq DOMAIN ph_metrics
              /\ Subscripted.luproset \subseteq DOMAIN luproset_metrics)
    THEN Raise("KeyError")
    ELSE Constraints(
             Recovery(collector_metrics, air_metrics, smbs_metrics, ph_metrics,
                      luproset_metrics),
             Grade(collector_metrics, air_metrics, smbs_metrics, ph_metrics),
             IronGrade(smbs_metrics, fe_feed_grade),
             CarbonGrade(luproset_metrics, carbon_feed_grade),
             ZincGrade(collector_metrics, air_metrics, smbs_metrics, ph_metrics,
                       zn_feed_grade),
             fe_feed_grade, carbon_feed_grade, zn_feed_grade)

calculate_performance(collector, air_rate, smbs, ph, luproset, fe_feed_grade, carbon_feed_grade, zn_feed_grade) ==
    Combine(interpolate_lookup(collector, COLLECTOR_LOOKUP),
            interpolate_lookup(air_rate, AIR_RATE_LOOKUP),
            interpolate_lookup(smbs, SMBS_LOOKUP),
            interpolate_lookup(ph, PH_LOOKUP),
            interpolate_lookup(luproset, LUPROSET_LOOKUP),
            fe_feed_grade, carbon_feed_grade, zn_feed_grade)

\* calculate_performance applied to an operating point, the 8-tuple of
\* lines 207-209 and 445
Perform(p) == calculate_performance(p[1], p[2], p[3], p[4], p[5], p[6], p[7], p[8])

----------------------------------------------------------------------------
(* Inputs.  The sidebar sliders, lines 156-204, give each input a minimum, *)
(* a maximum and a step.  The operating points explored are every          *)
(* Stride-th slider position plus both ends of the slider (every           *)
(* SweepStride-th on the SMBS axis, which the plots sweep), the slider     *)
(* defaults, and for each input a value the function accepts although no   *)
(* slider produces it.                                                     *)

Stride == 16

SweepStride == 8

\* positions min, min + step, ..., max of a slider, every stride-th one
Slider(min, max, step, stride) ==
    LET n == RDiv(RSub(max, min), step)[1]
    IN  {RAdd(min, RMul(R(i), step)) : i \in {j \in 0..n : j % stride = 0}}
        \cup {min, max}

CollectorSlider == Slider(R(0), R(150), R(5), Stride)
AirRateSlider   == Slider(R(0), R(100), R(5), Stride)
SmbsSlider      == Slider(R(0), R(300), R(10), SweepStride)
PhSlider        == Slider(R(7), R(10), Q(1, 10), Stride)
LuprosetSlider  == Slider(R(0), R(500), R(25), Stride)
FeSlider        == Slider(R(8), R(13), Q(1, 2), Stride)
CarbonSlider    == Slider(R(3), R(6), Q(1, 10), Stride)
ZnSlider        == Slider(R(8), R(13), Q(1, 2), Stride)

\* the slider defaults (value=...), the operating point of the first run
Defaults == <<R(0), R(0), R(0), Q(75, 10), R(0), R(11), Q(45, 10), Q(105, 10)>>

\* the SMBS values the sweep passes through, in and beyond the slider range
SmbsAxis == SmbsSlider \cup {R(310)}

\* slider points, the defaults, and arguments outside the table domains
\* and outside the feed-grade ranges (negative, zero, below 0.1)
OperatingPoints ==
    ((CollectorSlider \cup {R(-5)}) \X (AirRateSlider \cup {R(105)}) \X
     SmbsAxis \X (PhSlider \cup {Q(69, 10)}) \X
     (LuprosetSlider \cup {R(525)}) \X (FeSlider \cup {R(-1)}) \X
     (CarbonSlider \cup {R(0)}) \X (ZnSlider \cup {Q(1, 250)}))
    \cup {Defaults}

\* the ranges of the sliders: collector, air_rate, smbs, ph, luproset and
\* the three feed grades
InRange(v, min, max) == RLe(min, v) /\ RLe(v, max)

ValidPoint(p) ==
    /\ InRange(p[1], R(0), R(150))
    /\ InRange(p[2], R(0), R(100))
    /\ InRange(p[3], R(0), R(300))
    /\ InRange(p[4], R(7), R(10))
    /\ InRange(p[5], R(0), R(500))
    /\ InRange(p[6], R(8), R(13))
    /\ InRange(p[7], R(3), R(6))
    /\ InRange(p[8], R(8), R(13))

\* a result not computed yet, and a session key not stored yet
Pending == [pending |-> TRUE]

NoParams == <<>>

----------------------------------------------------------------------------
(* SpecPerf: calculate_performance applied to an operating point.          *)

InitPerf ==
    /\ params \in OperatingPoints
    /\ perf = Pending
    /\ lookup_table = SMBS_LOOKUP /\ value = R(0) /\ result = Pending
    /\ pb_history = <<>> /\ pb_last_params = NoParams

\* lines 207-209: the call on the current operating point
Evaluate ==
    /\ perf = Pending
    /\ perf' = Perform(params)
    /\ UNCHANGED <<params, lookup_table, value, result,
                   pb_history, pb_last_params>>

\* lines 261-271 and 411-419: the call repeated along the ascending SMBS
\* axis with the other seven arguments as they are
SmbsSweep ==
    /\ perf # Pending
    /\ \E smbs_val \in SmbsAxis :
          /\ RLt(params[3], smbs_val)
          /\ \A s \in SmbsAxis : ~(RLt(params[3], s) /\ RLt(s, smbs_val))
          /\ params' = [params EXCEPT ![3] = smbs_val]
          /\ perf' = Perform(params')
    /\ UNCHANGED <<lookup_table, value, result, pb_history, pb_last_params>>

NextPerf == Evaluate \/ SmbsSweep

SpecPerf == InitPerf /\ [][NextPerf]_vars

----------------------------------------------------------------------------
(* SpecInterp: interpolate_lookup applied to a table and a value.  The     *)
(* tables are the five of the program at every slider position and beyond  *)
(* both ends, the two-point table 0 -> {a: 0}, 100 -> {a: 10}, and every   *)
(* table with keys among 0..MaxKey and responses {a: 0..MaxVal}.           *)

MaxKey == 3

MaxVal == 2

SmallTables ==
    UNION {[{R(k) : k \in K} -> {[a |-> R(v)] : v \in 0..MaxVal}] :
              K \in (SUBSET (0..MaxKey)) \ {{}}}

\* halves from below the least key to above the greatest
SmallValues == {Q(n, 2) : n \in -1..(2 * MaxKey + 1)}

ExampleTable == (R(0) :> [a |-> R(0)]) @@ (R(100) :> [a |-> R(10)])

FixedTables ==
    {COLLECTOR_LOOKUP, AIR_RATE_LOOKUP, SMBS_LOOKUP, PH_LOOKUP, LUPROSET_LOOKUP}

InterpCases ==
    ({COLLECTOR_LOOKUP} \X (Slider(R(0), R(150), R(5), 1) \cup {R(-5), R(155)}))
    \cup ({AIR_RATE_LOOKUP} \X (Slider(R(0), R(100), R(5), 1) \cup {R(-5), R(105)}))
    \cup ({SMBS_LOOKUP} \X (Slider(R(0), R(300), R(10), 1) \cup {R(-10), R(310)}))
    \cup ({PH_LOOKUP} \X (Slider(R(7), R(10), Q(1, 10), 1) \cup {Q(69, 10), Q(101, 10)}))
    \cup ({LUPROSET_LOOKUP} \X (Slider(R(0), R(500), R(25), 1) \cup {R(-25), R(525)}))
    \cup ({ExampleTable} \X {R(-1), R(0), R(25), R(50), R(100), R(101)})
    \cup (SmallTables \X SmallValues)

InitInterp ==
    /\ \E c \in InterpCases : lookup_table = c[1] /\ value = c[2]
    /\ result = Pending
    /\ params = Defaults /\ perf = Pending
    /\ pb_history = <<>> /\ pb_last_params = NoParams

Interpolate ==
    /\ result = Pending
    /\ result' = interpolate_lookup(value, lookup_table)
    /\ UNCHANGED <<lookup_table, value, params, perf, pb_history, pb_last_params>>

NextInterp == Interpolate

SpecInterp == InitInterp /\ [][NextInterp]_vars

----------------------------------------------------------------------------
(* Spec: the Streamlit session.  Every interaction reruns the script; the  *)
(* sliders hold the operating point and st.session_state holds pb_history  *)
(* and pb_last_params across reruns.                                       *)

HistoryLimit == 50

\* the operating points the session moves between: the defaults and the
\* defaults with the SMBS slider at 100
SessionPoints == {Defaults, [Defaults EXCEPT ![3] = R(100)]}

\* line 456
Selectivity(r) ==
    IF RLt(R(0), r.zinc_grade) THEN RDiv(r.grade, r.zinc_grade) ELSE R(100)

\* lines 447-457: the appended entry
Entry(history, p, r) ==
    [time |-> Len(history),
     recovery |-> r.recovery, grade |-> r.grade, iron_grade |-> r.iron_grade,
     carbon_grade |-> r.carbon_grade, zinc_grade |-> r.zinc_grade,
     smbs |-> p[3], luproset |-> p[5], selectivity |-> Selectivity(r)]

\* ParamsChanged without the comparison: every run appends
ParamsChanged_Always(last, current_params) == TRUE

\* line 446
ParamsChanged(last, current_params) ==
    last = NoParams \/ last # current_params

\* KeepLast slicing from the front: history[:50]
KeepLast_First(history) ==
    IF Len(history) > HistoryLimit
    THEN SubSeq(history, 1, HistoryLimit)
    ELSE history

\* lines 461-462
KeepLast(history) ==
    IF Len(history) > HistoryLimit
    THEN SubSeq(history, Len(history) - HistoryLimit + 1, Len(history))
    ELSE history

\* lines 441-462: the history update of one script run at operating point
\* p, r being the results of lines 207-209
UpdateHistory(history, last, p, r) ==
    [pb_history |->
         KeepLast(IF ParamsChanged(last, p)
                  THEN Append(history, Entry(history, p, r))
                  ELSE history),
     pb_last_params |-> IF ParamsChanged(last, p) THEN p ELSE last]

Init ==
    /\ params = Defaults
    /\ perf = Pending
    /\ pb_history = <<>>
    /\ pb_last_params = NoParams
    /\ lookup_table = SMBS_LOOKUP /\ value = R(0) /\ result = Pending

\* one run of the script, lines 156-572, with the button not clicked: the
\* first run of a session at the slider defaults, a later one at any point
Run(p) ==
    /\ perf = Pending => p = params
    /\ params' = p
    /\ perf' = Perform(p)
    /\ pb_history' = UpdateHistory(pb_history, pb_last_params, p, perf').pb_history
    /\ pb_last_params' =
           UpdateHistory(pb_history, pb_last_params, p, perf').pb_last_params
    /\ UNCHANGED <<lookup_table, value, result>>

\* a click on "Reset Trends": the script runs at the unchanged sliders,
\* lines 575-577 empty the history and st.rerun() runs the script again
ResetTrends ==
    /\ perf # Pending
    /\ perf' = Perform(params)
    /\ pb_last_params' =
           UpdateHistory(pb_history, pb_last_params, params, perf').pb_last_params
    /\ pb_history' =
           UpdateHistory(<<>>, pb_last_params', params, perf').pb_history
    /\ UNCHANGED <<params, lookup_table, value, result>>

Next == (\E p \in SessionPoints : Run(p)) \/ ResetTrends

Spec == Init /\ [][Next]_vars

----------------------------------------------------------------------------
(* Properties of calculate_performance, checked under SpecPerf.            *)

Outputs == {"recovery", "grade", "iron_grade", "carbon_grade", "zinc_grade"}

Returned == perf # Pending /\ DOMAIN perf = Outputs

\* the five stated clamp ranges at operating point p
WithinClampRanges(r, p) ==
    /\ InRange(r.recovery, R(0), R(100))
    /\ InRange(r.grade, R(35), R(75))
    /\ InRange(r.iron_grade, Q(1, 10), p[6])
    /\ InRange(r.carbon_grade, Q(1, 10), RMul(R(4), p[7]))
    /\ InRange(r.zinc_grade, Q(1, 100), RMul(R(2), p[8]))

\* C1: at every operating point inside the slider ranges the five results
\* lie in their clamp ranges: recovery in [0,100], grade in [35,75],
\* iron_grade in [0.1, fe_feed_grade], carbon_grade in
\* [0.1, 4*carbon_feed_grade], zinc_grade in [0.01, 2*zn_feed_grade].
C1_OutputRange ==
    (perf # Pending /\ ValidPoint(params)) =>
        (Returned /\ WithinClampRanges(perf, params))

\* a valid operating point whose raw zinc grade was cut down to the cap
C1_Witness ==
    /\ Returned
    /\ ValidPoint(params)
    /\ perf.zinc_grade = RMul(R(2), params[8])
    /\ params[1] = R(150)

\* C2 as stated: at every operating point, also outside the table domains
\* and the feed-grade ranges, the five results lie in the clamp ranges.
C2_AlwaysWithinRanges ==
    perf # Pending => (Returned /\ WithinClampRanges(perf, params))

\* a result is held between floor and cap when the cap is not below the
\* floor, and is the floor when it is
FloorThenCap(x, floor, cap) ==
    /\ RLe(floor, x)
    /\ RLe(floor, cap) => RLe(x, cap)
    /\ RLt(cap, floor) => x = floor

\* C2 amended: at every operating point recovery is in [0,100] and grade in
\* [35,75]; iron_grade, carbon_grade and zinc_grade are at least 0.1, 0.1
\* and 0.01, at most fe_feed_grade, 4*carbon_feed_grade and
\* 2*zn_feed_grade when that cap is not below the floor, and equal to the
\* floor when the cap is below it.
C2_FloorWinsOverCap ==
    perf # Pending =>
        /\ Returned
        /\ InRange(perf.recovery, R(0), R(100))
        /\ InRange(perf.grade, R(35), R(75))
        /\ FloorThenCap(perf.iron_grade, Q(1, 10), params[6])
        /\ FloorThenCap(perf.carbon_grade, Q(1, 10), RMul(R(4), params[7]))
        /\ FloorThenCap(perf.zinc_grade, Q(1, 100), RMul(R(2), params[8]))

\* evaluated with a negative iron feed grade, a zero carbon feed grade and
\* a collector setting below the table
C2_Witness ==
    /\ Returned
    /\ RLt(params[6], R(0))
    /\ params[7] = R(0)
    /\ RLt(params[1], R(0))
    /\ perf.iron_grade = Q(1, 10)

\* C5 as stated: at the baseline operating point (0, 0, 0, 7.5, 0, 11.0,
\* 4.5, 10.5) recovery is 33.5 and lead grade is 42.2.
C5_BaselineAsStated ==
    (perf # Pending /\ params = Defaults) =>
        (perf.recovery = Q(335, 10) /\ perf.grade = Q(422, 10))

\* C5 amended: at the baseline operating point the blend of the 0-key rows
\* gives recovery 34.5 (= 5.5 + 2.5 + 20 + 6.5) and lead grade 47.7
\* (= 22.5 + 8.75 + 11.25 + 5.2 + 0).
C5_Baseline ==
    (perf # Pending /\ params = Defaults) =>
        (perf.recovery = Q(345, 10) /\ perf.grade = Q(477, 10))

C5_Witness == Returned /\ params = Defaults

\* the operating points agree on every input but SMBS
SameButSmbs(p, q) == \A i \in (1..8) \ {3} : p[i] = q[i]

\* C6: with the other seven inputs fixed at values in their valid ranges,
\* raising the SMBS dosage within [0,300] raises neither recovery nor
\* zinc_grade.  The sweep steps through the SMBS axis in ascending order,
\* so the steps chain to every pair s1 <= s2 of the axis.
C6_SmbsNonIncreasing ==
    [][(/\ Returned /\ perf' # Pending
        /\ ValidPoint(params) /\ ValidPoint(params')
        /\ SameButSmbs(params, params')
        /\ RLe(params[3], params'[3]))
       => (/\ RLe(perf'.recovery, perf.recovery)
           /\ RLe(perf'.zinc_grade, perf.zinc_grade))]_vars

BothBelow(r, r0) ==
    RLt(r.recovery, r0.recovery) /\ RLt(r.zinc_grade, r0.zinc_grade)

\* the sweep has reached SMBS 300 at a valid point, and both outputs are
\* strictly below what the same point gives at SMBS 0
C6_Witness ==
    /\ Returned
    /\ ValidPoint(params)
    /\ params[3] = R(300)
    /\ BothBelow(perf, Perform([params EXCEPT ![3] = R(0)]))

\* the clamp of x to [lo, hi], lo when the range is empty
Clamped(lo, hi, x) ==
    IF RLt(x, lo) \/ RLt(hi, lo) THEN lo
    ELSE IF RLt(hi, x) THEN hi
    ELSE x

\* x as a fraction of a hundred removed from one
Remaining(x) == RSub(R(1), RDiv(x, R(100)))

\* the spec's combination formula on the five interpolated responses
Blend(collector_r, air_r, smbs_r, ph_r, luproset_r, fe, carbon, zn) ==
    [recovery |->
         Clamped(R(0), R(100),
                 RAdd(RMul(RAdd(RMul(Q(55, 100), collector_r.recovery),
                           RAdd(RMul(Q(25, 100), air_r.recovery),
                           RAdd(RMul(Q(20, 100), smbs_r.recovery),
                                RMul(Q(10, 100), R(65))))),
                           ph_r.recovery_multiplier),
                      luproset_r.recovery_effect)),
     grade |->
         Clamped(R(35), R(75),
                 RAdd(RAdd(RMul(Q(50, 100), collector_r.grade),
                      RAdd(RMul(Q(25, 100), air_r.grade),
                      RAdd(RMul(Q(25, 100), smbs_r.grade),
                           RMul(Q(10, 100), R(52))))),
                      ph_r.grade_bonus)),
     iron_grade |->
         Clamped(Q(1, 10), RMul(fe, R(1)),
                 RMul(fe, Remaining(smbs_r.iron_rejection))),
     carbon_grade |->
         Clamped(Q(1, 10), RMul(carbon, R(4)),
                 RMul(RMul(carbon, R(4)), Remaining(luproset_r.carbon_rejection))),
     zinc_grade |->
         Clamped(Q(1, 100), RMul(zn, R(2)),
                 RMul(RMul(RMul(RAdd(collector_r.zn_activation,
                                     air_r.zn_flotation), zn),
                           ph_r.zn_selectivity),
                      Remaining(smbs_r.zn_depression)))]

Combination(p) ==
    Blend(interpolate_lookup(p[1], COLLECTOR_LOOKUP),
          interpolate_lookup(p[2], AIR_RATE_LOOKUP),
          interpolate_lookup(p[3], SMBS_LOOKUP),
          interpolate_lookup(p[4], PH_LOOKUP),
          interpolate_lookup(p[5], LUPROSET_LOOKUP),
          p[6], p[7], p[8])

\* C7: the five returned values are the clamped results of the spec's
\* combination formula on the five interpolated responses, with the
\* depression-only iron model and the iron cap fe_feed_grade (K_fe = 1.0).
C7_CombinationFormula ==
    perf # Pending => perf = Combination(params)

\* evaluated where no input sits on a table key, Luproset lowers the
\* recovery and the zinc cap is not reached
C7_Witness ==
    /\ Returned
    /\ ValidPoint(params)
    /\ params[1] \notin DOMAIN COLLECTOR_LOOKUP
    /\ params[2] \notin DOMAIN AIR_RATE_LOOKUP
    /\ params[3] \notin DOMAIN SMBS_LOOKUP
    /\ params[4] \notin DOMAIN PH_LOOKUP
    /\ params[5] \notin DOMAIN LUPROSET_LOOKUP
    /\ RLt(perf.zinc_grade, RMul(R(2), params[8]))

\* the call of interpolate_lookup(v, lookup) returns at an edge or finds a
\* pair of adjacent keys around v with the upper key above the lower one
EdgeOrBracketedIn(v, keys) ==
    \/ RLe(v, keys[1])
    \/ RLe(keys[Len(keys)], v)
    \/ \E i \in 1..(Len(keys) - 1) :
          /\ RLe(keys[i], v) /\ RLe(v, keys[i + 1])
          /\ RLt(keys[i], keys[i + 1])

EdgeOrBracketed(v, lookup) == EdgeOrBracketedIn(v, sorted(DOMAIN lookup))

\* the call of interpolate_lookup(v, lookup) returns a row holding attrs
HoldsAll(r, attrs) == ~Raised(r) /\ attrs \subseteq DOMAIN r

Interpolated(v, lookup, attrs) == HoldsAll(interpolate_lookup(v, lookup), attrs)

\* the five calls of lines 88-92 at operating point p
Calls(p) ==
    [collector |-> <<p[1], COLLECTOR_LOOKUP>>,
     air       |-> <<p[2], AIR_RATE_LOOKUP>>,
     smbs      |-> <<p[3], SMBS_LOOKUP>>,
     ph        |-> <<p[4], PH_LOOKUP>>,
     luproset  |-> <<p[5], LUPROSET_LOOKUP>>]

\* C8: calculate_performance is total: each of the five interpolations
\* returns at an edge or finds a bracketing pair with k_hi > k_lo, its
\* result holds every attribute the formula reads, and the call returns
\* five values without raising.
C8_Total ==
    perf # Pending =>
        /\ ~Raised(perf)
        /\ DOMAIN perf = Outputs
        /\ \A t \in DOMAIN Calls(params) :
              /\ EdgeOrBracketed(Calls(params)[t][1], Calls(params)[t][2])
              /\ Interpolated(Calls(params)[t][1], Calls(params)[t][2],
                              Subscripted[t])

\* a call with two arguments beyond their tables, pH on an interior key
\* and SMBS strictly between two keys
C8_Witness ==
    /\ perf # Pending
    /\ ~Raised(perf)
    /\ \/ /\ RLt(params[1], R(0))
          /\ RLt(R(100), params[2])
          /\ params[3] \notin DOMAIN SMBS_LOOKUP
          /\ InRange(params[3], R(0), R(300))
       \/ /\ params[4] = Q(75, 10)
          /\ params[3] \notin DOMAIN SMBS_LOOKUP

----------------------------------------------------------------------------
(* Properties of interpolate_lookup, checked under SpecInterp.             *)

IsMinKey(k, lookup) == k \in DOMAIN lookup /\ \A j \in DOMAIN lookup : RLe(k, j)

IsMaxKey(k, lookup) == k \in DOMAIN lookup /\ \A j \in DOMAIN lookup : RLe(j, k)

\* lo and hi are keys with no key strictly between them
AdjacentKeys(lo, hi, lookup) ==
    /\ lo \in DOMAIN lookup /\ hi \in DOMAIN lookup
    /\ RLt(lo, hi)
    /\ \A k \in DOMAIN lookup : ~(RLt(lo, k) /\ RLt(k, hi))

\* C3: for a table with at least one control point the result is exactly
\* the response at the minimum key when x <= min(keys) and exactly the
\* response at the maximum key when x >= max(keys); a table with a single
\* control point gives that point's response for every x.
C3_BoundaryClamp ==
    (result # Pending /\ DOMAIN lookup_table # {}) =>
        \A k \in DOMAIN lookup_table :
            /\ (IsMinKey(k, lookup_table) /\ RLe(value, k))
                   => result = lookup_table[k]
            /\ (IsMaxKey(k, lookup_table) /\ RLe(k, value))
                   => result = lookup_table[k]
            /\ DOMAIN lookup_table = {k} => result = lookup_table[k]

\* a table of several control points asked strictly beyond its last key
\* answers with the last row, which differs from the first
C3_Witness ==
    /\ result # Pending
    /\ Cardinality(DOMAIN lookup_table) > 1
    /\ \E k \in DOMAIN lookup_table :
          /\ IsMaxKey(k, lookup_table) /\ RLt(k, value)
          /\ result = lookup_table[k]
          /\ \E j \in DOMAIN lookup_table :
                IsMinKey(j, lookup_table) /\ lookup_table[j] # result

\* C4: for x strictly between the least and the greatest key the result
\* is, on every attribute of the k_lo row, the linear interpolation
\* between the first adjacent pair k_lo <= x <= k_hi, stated here as
\* result * (k_hi - k_lo) = lo_val * (k_hi - x) + hi_val * (x - k_lo);
\* for the table 0 -> {a: 0}, 100 -> {a: 10} it is {a: 5} at 50 and
\* {a: 2.5} at 25.
C4_InteriorLinear ==
    result # Pending =>
        /\ \A lo \in DOMAIN lookup_table, hi \in DOMAIN lookup_table :
              (AdjacentKeys(lo, hi, lookup_table)
               /\ RLt(lo, value) /\ RLe(value, hi)
               /\ ~IsMaxKey(value, lookup_table))
              => /\ DOMAIN result = DOMAIN lookup_table[lo]
                 /\ \A attr \in DOMAIN lookup_table[lo] :
                       RMul(result[attr], RSub(hi, lo)) =
                           RAdd(RMul(lookup_table[lo][attr], RSub(hi, value)),
                                RMul(lookup_table[hi][attr], RSub(value, lo)))
        /\ (lookup_table = ExampleTable /\ value = R(50))
              => result = [a |-> R(5)]
        /\ (lookup_table = ExampleTable /\ value = R(25))
              => result = [a |-> Q(5, 2)]

\* the example table asked at 25
C4_Witness ==
    /\ result # Pending
    /\ lookup_table = ExampleTable
    /\ value = R(25)
    /\ result.a = Q(25, 10)

\* C9: at every interior key k_i of the five tables the result is the
\* response stored at k_i, and the segment ending at k_i and the segment
\* starting at k_i both evaluate to that response at x = k_i.
C9_ContinuousAtKeys ==
    (result # Pending /\ lookup_table \in FixedTables
     /\ value \in DOMAIN lookup_table
     /\ ~IsMinKey(value, lookup_table) /\ ~IsMaxKey(value, lookup_table))
    => /\ result = lookup_table[value]
       /\ \A k \in DOMAIN lookup_table :
             /\ AdjacentKeys(k, value, lookup_table)
                   => Lerp(value, lookup_table, k, value) = lookup_table[value]
             /\ AdjacentKeys(value, k, lookup_table)
                   => Lerp(value, lookup_table, value, k) = lookup_table[value]

\* the pH table asked at its interior key 8.5
C9_Witness ==
    /\ result # Pending
    /\ lookup_table = PH_LOOKUP
    /\ value = Q(85, 10)
    /\ result.grade_bonus = Q(35, 10)

----------------------------------------------------------------------------
(* Properties of the session history, checked under Spec.                  *)

\* the history after the run is the history before it with one entry for
\* the current operating point added at the end, the oldest entry dropped
\* when the limit was reached
OneEntryAppended ==
    /\ pb_history' # <<>>
    /\ LET n == Len(pb_history')
           e == pb_history'[n]
       IN  /\ \/ n = Len(pb_history) + 1
              \/ n = HistoryLimit /\ Len(pb_history) = HistoryLimit
           /\ \A i \in 1..(n - 1) :
                 pb_history'[i] = pb_history[Len(pb_history) - (n - 1) + i]
           /\ e.time = Len(pb_history)
           /\ e.smbs = params'[3] /\ e.luproset = params'[5]
           /\ e.recovery = perf'.recovery /\ e.grade = perf'.grade
           /\ e.iron_grade = perf'.iron_grade
           /\ e.carbon_grade = perf'.carbon_grade
           /\ e.zinc_grade = perf'.zinc_grade

\* C10: a run appends exactly one entry to pb_history when the current
\* parameters differ from pb_last_params or none is stored yet, appends
\* nothing when they are identical, and after every run pb_last_params is
\* the current parameter tuple.
C10_AppendOnChange ==
    [][/\ pb_last_params' = params'
       /\ (\E p \in SessionPoints : Run(p)) =>
             IF pb_last_params = NoParams \/ pb_last_params # params'
             THEN OneEntryAppended
             ELSE pb_history' = pb_history]_vars

\* three runs at changing parameters have appended three entries and a
\* run at unchanged parameters is possible from here
C10_Witness ==
    /\ Len(pb_history) = 3
    /\ pb_history[3].time = 2
    /\ pb_history[2].smbs = R(100)
    /\ pb_last_params = params

\* the last n elements of s in their order, all of s when it has fewer
LastOf(s, n) ==
    [i \in 1..(IF Len(s) < n THEN Len(s) ELSE n) |->
        s[(IF Len(s) < n THEN 0 ELSE Len(s) - n) + i]]

\* C11: after every script run pb_history holds at most 50 entries, and
\* once more than 50 were appended since the last reset it holds exactly
\* the 50 most recently appended ones in their original order.  Stated
\* run by run: a reset leaves the history empty, and a run at changed
\* parameters leaves the last 50 of the previous entries followed by the
\* new one.
C11_KeepsLast50 ==
    /\ [](Len(pb_history) <= HistoryLimit)
    /\ [][/\ ResetTrends => pb_history' = <<>>
          /\ ((\E p \in SessionPoints : Run(p))
              /\ (pb_last_params = NoParams \/ pb_last_params # params'))
                => /\ pb_history' # <<>>
                   /\ pb_history'[Len(pb_history')].smbs = params'[3]
                   /\ pb_history' =
                          LastOf(Append(pb_history,
                                        pb_history'[Len(pb_history')]),
                                 HistoryLimit)]_vars

\* 52 entries were appended since the session began: the two oldest are
\* gone and the history is full
C11_Witness ==
    /\ Len(pb_history) = HistoryLimit
    /\ pb_history[1].time = 2
    /\ pb_history[HistoryLimit - 1].time = HistoryLimit
    /\ pb_history[HistoryLimit].smbs = R(100)

\* C12: in every reachable session state the 'time' values of the entries
\* of pb_history are strictly increasing in list order.
C12_TimesStrictlyIncreasing ==
    \A i \in 1..(Len(pb_history) - 1) :
        pb_history[i].time < pb_history[i + 1].time

====
